---------------------------- MODULE Spec2Model ----------------------------
(***************************************************************************)
(* Model of the two extract-load scripts of defi-analytics-pipeline:       *)
(*   extract_load/fetch_market_data.py   (fetch -> process -> save)        *)
(*   extract_load/fetch_onchain_data.py  (connect -> extract -> save)      *)
(*                                                                         *)
(* One behaviour is one invocation of one entry point.  `entry` names the  *)
(* function that was called (a pipeline's main, or one of the functions    *)
(* called directly with arguments of its own), `pc` is the position of     *)
(* control.  The environment (the HTTP endpoint, the chain, the failing    *)
(* blocks) is fixed by Init; the outcome of a call that is consulted once  *)
(* (node liveness, the disk) is chosen when the call is made.              *)
(***************************************************************************)
EXTENDS Integers, Sequences, FiniteSets

VARIABLES
    entry,                \* the entry point invoked in this run
    pc,                   \* position of control
    exc,                  \* class of the exception most recently raised
    calls,                \* the functions entered so far, in call order
    logged,               \* the log lines emitted so far
    file,                 \* the run's output CSV file
    \* ---- fetch_market_data.py
    endpoint,             \* endpoint[n]: the response to the n-th request
    max_retries,          \* argument of fetch_market_data
    attempt,              \* loop variable of fetch_market_data
    requests,             \* number of requests.get calls issued
    sleeps,               \* number of time.sleep(5) calls taken
    raw_data,             \* what fetch_market_data returned
    df,                   \* what process_market_data returned
    \* ---- fetch_onchain_data.py
    head,                 \* the chain's head block number (w3.eth.block_number)
    failing,              \* the blocks whose fetch or processing raises
    num_blocks,           \* argument of extract_block_data
    latest_block_number,  \* local of extract_block_data
    start_block,          \* local of extract_block_data
    block_num,            \* loop variable of extract_block_data
    attempted,            \* the block numbers passed to get_block, in order
    data                  \* the list extract_block_data builds

vars == <<entry, pc, exc, calls, logged, file,
          endpoint, max_retries, attempt, requests, sleeps, raw_data, df,
          head, failing, num_blocks, latest_block_number, start_block,
          block_num, attempted, data>>

marketVars  == <<endpoint, max_retries, attempt, requests, sleeps, raw_data, df>>
onchainVars == <<head, failing, num_blocks, latest_block_number, start_block,
                 block_num, attempted, data>>

---------------------------------------------------------------------------
(* Bounds of the model *)

MaxRetries == 3     \* max_retries of a direct call ranges over -1..MaxRetries
MaxLen     == 2     \* longest price / volume series given to process_market_data
MaxHead    == 3     \* the chain head ranges over 0..MaxHead
MaxBlocks  == 3     \* num_blocks of a direct call ranges over 0..MaxBlocks

(* Program constants *)

DefaultMaxRetries == 3          \* fetch_market_data(max_retries: int = 3)
RateLimitStatus   == 429
MainNumBlocks     == 100        \* extract_block_data(w3, num_blocks=100)
ProgressEvery     == 20
MsPerDay          == 86400000   \* pd.to_datetime(unit="ms").dt.date

Min(a, b) == IF a < b THEN a ELSE b
Max(a, b) == IF a > b THEN a ELSE b

---------------------------------------------------------------------------
(* Python values *)

None == [type |-> "NoneType"]

Dict(p, v) == [type |-> "dict", prices |-> p, total_volumes |-> v]

DataFrame(rows) == [type |-> "DataFrame", rows |-> rows]

(* Exception classes and isinstance(): requests.exceptions.HTTPError is a   *)
(* RequestException; every class here derives from Exception.              *)
IsInstance(e, class) ==
    \/ class = e
    \/ class = "RequestException" /\ e = "HTTPError"
    \/ class = "Exception" /\ e # "none"

(* The output file: absent, left by a previous run, written by this run,   *)
(* or left half-written by a to_csv call that failed.                      *)
Absent   == [state |-> "absent",   columns |-> <<>>, rows |-> <<>>]
Previous == [state |-> "previous", columns |-> <<>>, rows |-> <<>>]
Partial  == [state |-> "partial",  columns |-> <<>>, rows |-> <<>>]
Written(cols, rows) == [state |-> "written", columns |-> cols, rows |-> rows]

Untouched(f) == f.state \in {"absent", "previous"}

---------------------------------------------------------------------------
(* The price-history endpoint *)

HalfDay == MsPerDay \div 2

(* Epoch-millisecond timestamps: two on 1970-01-01, one on 1970-01-02. *)
Timestamps == {0, HalfDay, MsPerDay}

PriceValues  == {10, 11}
VolumeValues == {20, 21}

SeqsUpTo(S, n) == UNION {[1..k -> S] : k \in 0..n}

PriceSeries  == SeqsUpTo(Timestamps \X PriceValues, MaxLen)
VolumeSeries == SeqsUpTo(Timestamps \X VolumeValues, MaxLen)

(* The response bodies the endpoint serves to fetch_market_data: a week-like *)
(* payload with a live same-day point, one whose two series share no        *)
(* timestamp, and one without prices.                                       *)
BodyDaily    == Dict(<< <<0, 10>>, <<MsPerDay, 11>>, <<MsPerDay + HalfDay, 12>> >>,
                     << <<0, 20>>, <<MsPerDay, 21>>, <<MsPerDay + HalfDay, 22>> >>)
BodyDisjoint == Dict(<< <<0, 10>> >>, << <<MsPerDay, 20>> >>)
BodyNoPrices == Dict(<<>>, << <<0, 20>> >>)

ResponseBodies == {BodyDaily, BodyDisjoint, BodyNoPrices}

(* A response: an HTTP status with a body, or no response at all (status 0: *)
(* a timeout or a connection failure, requests.get raises).                 *)
NoResponse == [status |-> 0, body |-> None]
HttpResponse(s, b) == [status |-> s, body |-> b]

Responses ==
    {HttpResponse(200, b) : b \in ResponseBodies}
        \cup {HttpResponse(s, None) : s \in {RateLimitStatus, 404, 500}}
        \cup {NoResponse}

ScriptLen == Max(MaxRetries, DefaultMaxRetries)

Endpoints == [1..ScriptLen -> Responses]

(* Response.raise_for_status(): HTTPError for a 4xx or 5xx status. *)
RaisesForStatus(r) == r.status >= 400 /\ r.status < 600

(* A handler that takes every HTTP error for a rate limit *)
IsAnyHttpError(r) == r.status >= 400

(* `e.response.status_code == 429` *)
IsRateLimited(r) == r.status = RateLimitStatus

---------------------------------------------------------------------------
(* fetch_market_data(coin_id, currency, days, max_retries) *)

FetchEnter ==
    /\ pc = "fetch_enter"
    /\ logged' = logged \cup {"Fetching market data"}
    /\ calls' = Append(calls, "fetch_market_data")
    /\ attempt' = 1
    /\ pc' = "fetch_loop"
    /\ UNCHANGED <<entry, exc, file, endpoint, max_retries, requests, sleeps,
                   raw_data, df, onchainVars>>

(* A loop that retries after its last attempt too *)
MayRetryAfterLast(a, m) == a <= m

(* The condition under which an attempt that failed retryably sleeps and    *)
(* goes round the loop again.                                               *)
MayRetry(a, m) == a < m

(* requests.get returned, raise_for_status passed: return response.json() *)
FetchOk ==
    /\ pc = "fetch_loop"
    /\ attempt <= max_retries
    /\ LET r == endpoint[requests + 1] IN
        /\ r # NoResponse
        /\ ~RaisesForStatus(r)
        /\ raw_data' = r.body
    /\ requests' = requests + 1
    /\ pc' = "fetch_returned"
    /\ UNCHANGED <<entry, exc, calls, logged, file, endpoint, max_retries,
                   attempt, sleeps, df, onchainVars>>

(* except HTTPError, status 429 *)
FetchRateLimited ==
    /\ pc = "fetch_loop"
    /\ attempt <= max_retries
    /\ LET r == endpoint[requests + 1] IN
        /\ r # NoResponse
        /\ RaisesForStatus(r)
        /\ IsRateLimited(r)
    /\ requests' = requests + 1
    /\ IF MayRetry(attempt, max_retries)
         THEN /\ logged' = logged \cup {"Rate limit hit"}
              /\ sleeps' = sleeps + 1
              /\ attempt' = attempt + 1
              /\ UNCHANGED <<pc, exc>>
         ELSE /\ logged' = logged \cup {"Rate limit hit", "Max retries reached"}
              /\ exc' = "HTTPError"
              /\ pc' = "fetch_raised"
              /\ UNCHANGED <<sleeps, attempt>>
    /\ UNCHANGED <<entry, calls, file, endpoint, max_retries, raw_data, df,
                   onchainVars>>

(* except HTTPError, any other status *)
FetchHttpError ==
    /\ pc = "fetch_loop"
    /\ attempt <= max_retries
    /\ LET r == endpoint[requests + 1] IN
        /\ r # NoResponse
        /\ RaisesForStatus(r)
        /\ ~IsRateLimited(r)
    /\ requests' = requests + 1
    /\ logged' = logged \cup {"HTTP Error"}
    /\ exc' = "HTTPError"
    /\ pc' = "fetch_raised"
    /\ UNCHANGED <<entry, calls, file, endpoint, max_retries, attempt, sleeps,
                   raw_data, df, onchainVars>>

(* except RequestException: requests.get raised without a response *)
FetchRequestError ==
    /\ pc = "fetch_loop"
    /\ attempt <= max_retries
    /\ endpoint[requests + 1] = NoResponse
    /\ requests' = requests + 1
    /\ logged' = logged \cup {"Request Error"}
    /\ IF MayRetry(attempt, max_retries)
         THEN /\ sleeps' = sleeps + 1
              /\ attempt' = attempt + 1
              /\ UNCHANGED <<pc, exc>>
         ELSE /\ exc' = "RequestException"
              /\ pc' = "fetch_raised"
              /\ UNCHANGED <<sleeps, attempt>>
    /\ UNCHANGED <<entry, calls, file, endpoint, max_retries, raw_data, df,
                   onchainVars>>

(* range(1, max_retries + 1) is exhausted: the function body ends, and the  *)
(* call returns None.                                                       *)
FetchLoopEnd ==
    /\ pc = "fetch_loop"
    /\ attempt > max_retries
    /\ raw_data' = None
    /\ pc' = "fetch_returned"
    /\ UNCHANGED <<entry, exc, calls, logged, file, endpoint, max_retries,
                   attempt, requests, sleeps, df, onchainVars>>

---------------------------------------------------------------------------
(* process_market_data(raw_data) *)

(* pd.DataFrame(prices, columns=["timestamp", "price"]) *)
PriceFrame(prices) ==
    [i \in 1..Len(prices) |-> [timestamp |-> prices[i][1], price |-> prices[i][2]]]

(* pd.DataFrame(volumes, columns=["timestamp", "volume"]) *)
VolumeFrame(volumes) ==
    [i \in 1..Len(volumes) |-> [timestamp |-> volumes[i][1], volume |-> volumes[i][2]]]

(* The rows one left row joins to: one per right row with its key, in the   *)
(* right frame's order.                                                     *)
RECURSIVE JoinRow(_, _)
JoinRow(l, right) ==
    IF right = <<>> THEN <<>>
    ELSE (IF Head(right).timestamp = l.timestamp
            THEN << [timestamp |-> l.timestamp, price |-> l.price,
                     volume |-> Head(right).volume] >>
            ELSE <<>>)
         \o JoinRow(l, Tail(right))

(* pd.merge(left, right, on="timestamp"): the inner join, in the order of   *)
(* the left frame's keys.                                                   *)
RECURSIVE Merge(_, _)
Merge(left, right) ==
    IF left = <<>> THEN <<>>
    ELSE JoinRow(Head(left), right) \o Merge(Tail(left), right)

(* pd.to_datetime(ts, unit="ms").dt.date, as days since 1970-01-01 *)
ToDate(ts) == ts \div MsPerDay

(* df["date"] = ...; df = df[["date", "price", "volume"]] *)
WithDate(rows) ==
    [i \in 1..Len(rows) |->
        [date |-> ToDate(rows[i].timestamp), price |-> rows[i].price,
         volume |-> rows[i].volume]]

(* drop_duplicates with keep="first" *)
KeptFirstOfDate(rows) ==
    {i \in 1..Len(rows) : \A j \in 1..(i - 1) : rows[j].date # rows[i].date}

(* The index of rows that drop_duplicates(subset=["date"], keep="last")     *)
(* keeps: those with no later row of the same date.                         *)
KeptByDropDuplicates(rows) ==
    {i \in 1..Len(rows) : \A j \in (i + 1)..Len(rows) : rows[j].date # rows[i].date}

(* The rows of `rows` whose index is in `keep`, in their order. *)
RECURSIVE TakeRows(_, _, _)
TakeRows(rows, keep, i) ==
    IF i > Len(rows) THEN <<>>
    ELSE (IF i \in keep THEN <<rows[i]>> ELSE <<>>) \o TakeRows(rows, keep, i + 1)

(* A transformer without the drop_duplicates call *)
KeepAllRows(rows) == rows

DropDuplicates(rows) == TakeRows(rows, KeptByDropDuplicates(rows), 1)

(* `not prices or not volumes` *)
MissingSeries(raw) == raw.prices = <<>> \/ raw.total_volumes = <<>>

(* The frame process_market_data returns for a payload with both series.    *)
(* The casts astype(float) leave the numbers of the model as they are.      *)
ProcessRows(raw) ==
    DropDuplicates(WithDate(Merge(PriceFrame(raw.prices),
                                  VolumeFrame(raw.total_volumes))))

ProcessEnter ==
    /\ pc = "process_enter"
    /\ calls' = Append(calls, "process_market_data")
    /\ IF raw_data = None
         THEN \* raw_data.get: 'NoneType' object has no attribute 'get'
              /\ logged' = logged \cup {"Processing raw JSON", "Error processing market data"}
              /\ exc' = "AttributeError"
              /\ pc' = "process_raised"
              /\ UNCHANGED df
         ELSE IF MissingSeries(raw_data)
         THEN /\ logged' = logged \cup {"Processing raw JSON", "Error processing market data"}
              /\ exc' = "ValueError"
              /\ pc' = "process_raised"
              /\ UNCHANGED df
         ELSE /\ logged' = logged \cup {"Processing raw JSON"}
              /\ df' = DataFrame(ProcessRows(raw_data))
              /\ pc' = "process_returned"
              /\ UNCHANGED exc
    /\ UNCHANGED <<entry, file, endpoint, max_retries, attempt, requests, sleeps,
                   raw_data, onchainVars>>

---------------------------------------------------------------------------
(* fetch_market_data.py: save_to_csv(df, filename) *)

MarketColumns == <<"date", "price", "volume">>

(* df.to_csv(output_path, index=False) succeeds: header line and one line   *)
(* per row, whatever the number of rows.                                    *)
MarketSaveOk ==
    /\ pc = "market_save_enter"
    /\ calls' = Append(calls, "save_to_csv")
    /\ logged' = logged \cup {"Saving data", "Data saved successfully"}
    /\ file' = Written(MarketColumns, df.rows)
    /\ pc' = "save_returned"
    /\ UNCHANGED <<entry, exc, marketVars, onchainVars>>

(* df.to_csv raises (permissions, disk full): logged and re-raised.  The    *)
(* file is as it was, or truncated and incomplete.                          *)
MarketSaveFails ==
    /\ pc = "market_save_enter"
    /\ calls' = Append(calls, "save_to_csv")
    /\ logged' = logged \cup {"Saving data", "Error saving to CSV"}
    /\ file' \in {file, Partial}
    /\ exc' = "OSError"
    /\ pc' = "save_raised"
    /\ UNCHANGED <<entry, marketVars, onchainVars>>

---------------------------------------------------------------------------
(* fetch_market_data.py: main() *)

MarketMainStart ==
    /\ entry = "market_main"
    /\ pc = "main_start"
    /\ logged' = logged \cup {"Starting market data extraction pipeline"}
    /\ max_retries' = DefaultMaxRetries
    /\ pc' = "fetch_enter"
    /\ UNCHANGED <<entry, exc, calls, file, endpoint, attempt, requests, sleeps,
                   raw_data, df, onchainVars>>

MarketMainProcess ==
    /\ entry = "market_main"
    /\ pc = "fetch_returned"
    /\ pc' = "process_enter"
    /\ UNCHANGED <<entry, exc, calls, logged, file, marketVars, onchainVars>>

MarketMainSave ==
    /\ entry = "market_main"
    /\ pc = "process_returned"
    /\ logged' = logged \cup {"Generated DataFrame"}
    /\ pc' = "market_save_enter"
    /\ UNCHANGED <<entry, exc, calls, file, marketVars, onchainVars>>

MarketMainSuccess ==
    /\ entry = "market_main"
    /\ pc = "save_returned"
    /\ logged' = logged \cup {"Pipeline executed successfully"}
    /\ pc' = "main_returned"
    /\ UNCHANGED <<entry, exc, calls, file, marketVars, onchainVars>>

(* A handler for request errors only *)
CatchesRequestErrors(e) == IsInstance(e, "RequestException")

(* The handler of main's try statement: `except Exception as e`. *)
MainCatches(e) == IsInstance(e, "Exception")

MarketMainExcept ==
    /\ entry = "market_main"
    /\ pc \in {"fetch_raised", "process_raised", "save_raised"}
    /\ IF MainCatches(exc)
         THEN /\ logged' = logged \cup {"Pipeline execution failed"}
              /\ pc' = "main_returned"
         ELSE /\ pc' = "main_raised"
              /\ UNCHANGED logged
    /\ UNCHANGED <<entry, exc, calls, file, marketVars, onchainVars>>

---------------------------------------------------------------------------
(* connect_to_node() *)

(* os.getenv("WEB3_PROVIDER_URI") is unset or empty *)
ConnectNoUri ==
    /\ pc = "connect_enter"
    /\ calls' = Append(calls, "connect_to_node")
    /\ logged' = logged \cup {"WEB3_PROVIDER_URI not found"}
    /\ exc' = "ValueError"
    /\ pc' = "connect_raised"
    /\ UNCHANGED <<entry, file, marketVars, onchainVars>>

(* w3.is_connected() is False *)
ConnectNotConnected ==
    /\ pc = "connect_enter"
    /\ calls' = Append(calls, "connect_to_node")
    /\ logged' = logged \cup {"Failed to connect to the Ethereum node"}
    /\ exc' = "ConnectionError"
    /\ pc' = "connect_raised"
    /\ UNCHANGED <<entry, file, marketVars, onchainVars>>

ConnectOk ==
    /\ pc = "connect_enter"
    /\ calls' = Append(calls, "connect_to_node")
    /\ logged' = logged \cup {"Successfully connected to Ethereum Node"}
    /\ pc' = "connect_returned"
    /\ UNCHANGED <<entry, exc, file, marketVars, onchainVars>>

---------------------------------------------------------------------------
(* extract_block_data(w3, num_blocks) *)

(* A window that is not clamped at the genesis block *)
StartBlockUnclamped(latest, n) == latest - n + 1

(* start_block = latest_block_number - num_blocks + 1, clamped at 0 *)
StartBlock(latest, n) ==
    LET s == latest - n + 1 IN IF s < 0 THEN 0 ELSE s

(* w3.eth.block_number answers: the window is fixed and the loop begins *)
ExtractEnter ==
    /\ pc = "extract_enter"
    /\ calls' = Append(calls, "extract_block_data")
    /\ latest_block_number' = head
    /\ logged' = logged \cup {"Latest block number", "Extracting data"}
    /\ start_block' = StartBlock(head, num_blocks)
    /\ data' = <<>>
    /\ block_num' = head
    /\ pc' = "extract_loop"
    /\ UNCHANGED <<entry, exc, file, marketVars, head, failing, num_blocks,
                   attempted>>

(* w3.eth.block_number raises (the RPC call fails): nothing catches it in   *)
(* extract_block_data.                                                      *)
ExtractHeadFails ==
    /\ pc = "extract_enter"
    /\ calls' = Append(calls, "extract_block_data")
    /\ exc' = "RPCError"
    /\ pc' = "extract_raised"
    /\ UNCHANGED <<entry, logged, file, marketVars, onchainVars>>

(* The record built from the block get_block(n) returns. *)
BlockRecord(n) == [block_number |-> n]

(* list.append(block_data), then the progress line every 20 records *)
AppendRecord(d, n) == Append(d, BlockRecord(n))

(* The value of block_num in the iteration after this one:                  *)
(* range(latest_block_number, start_block - 1, -1).                         *)
NextBlock(n) == n - 1

(* One iteration whose try body completes *)
ExtractBlockOk ==
    /\ pc = "extract_loop"
    /\ block_num >= start_block
    /\ block_num \notin failing
    /\ attempted' = Append(attempted, block_num)
    /\ data' = AppendRecord(data, block_num)
    /\ logged' = IF Len(data') % ProgressEvery = 0
                   THEN logged \cup {"Processed blocks"} ELSE logged
    /\ block_num' = NextBlock(block_num)
    /\ UNCHANGED <<entry, pc, exc, calls, file, marketVars, head, failing,
                   num_blocks, latest_block_number, start_block>>

(* A handler that logs the error and raises it again *)
ExtractBlockRaises ==
    /\ pc = "extract_loop"
    /\ block_num >= start_block
    /\ block_num \in failing
    /\ attempted' = Append(attempted, block_num)
    /\ logged' = logged \cup {"Error extracting data for block"}
    /\ exc' = "BlockError"
    /\ pc' = "extract_raised"
    /\ UNCHANGED <<entry, calls, file, marketVars, head, failing, num_blocks,
                   latest_block_number, start_block, block_num, data>>

(* One iteration whose try body raises: `except Exception`, log, continue *)
ExtractBlockFails ==
    /\ pc = "extract_loop"
    /\ block_num >= start_block
    /\ block_num \in failing
    /\ attempted' = Append(attempted, block_num)
    /\ logged' = logged \cup {"Error extracting data for block"}
    /\ block_num' = NextBlock(block_num)
    /\ UNCHANGED <<entry, pc, exc, calls, file, marketVars, head, failing,
                   num_blocks, latest_block_number, start_block, data>>

(* The range is exhausted: return data *)
ExtractReturn ==
    /\ pc = "extract_loop"
    /\ block_num < start_block
    /\ pc' = "extract_returned"
    /\ UNCHANGED <<entry, exc, calls, logged, file, marketVars, onchainVars>>

---------------------------------------------------------------------------
(* fetch_onchain_data.py: save_to_csv(data, filename) *)

OnchainColumns ==
    <<"block_number", "timestamp", "transaction_count", "base_fee_per_gas_gwei">>

(* `if not data`: warn and return *)
OnchainSaveEmpty ==
    /\ pc = "onchain_save_enter"
    /\ data = <<>>
    /\ calls' = Append(calls, "save_to_csv")
    /\ logged' = logged \cup {"No data to save"}
    /\ pc' = "save_returned"
    /\ UNCHANGED <<entry, exc, file, marketVars, onchainVars>>

OnchainSaveOk ==
    /\ pc = "onchain_save_enter"
    /\ data # <<>>
    /\ calls' = Append(calls, "save_to_csv")
    /\ logged' = logged \cup {"Saving records", "On-chain data saved successfully"}
    /\ file' = Written(OnchainColumns, data)
    /\ pc' = "save_returned"
    /\ UNCHANGED <<entry, exc, marketVars, onchainVars>>

OnchainSaveFails ==
    /\ pc = "onchain_save_enter"
    /\ data # <<>>
    /\ calls' = Append(calls, "save_to_csv")
    /\ logged' = logged \cup {"Saving records", "Error saving to CSV"}
    /\ file' \in {file, Partial}
    /\ exc' = "OSError"
    /\ pc' = "save_raised"
    /\ UNCHANGED <<entry, marketVars, onchainVars>>

---------------------------------------------------------------------------
(* fetch_onchain_data.py: main() *)

OnchainMainStart ==
    /\ entry = "onchain_main"
    /\ pc = "main_start"
    /\ logged' = logged \cup {"Starting on-chain data extraction pipeline"}
    /\ pc' = "connect_enter"
    /\ UNCHANGED <<entry, exc, calls, file, marketVars, onchainVars>>

OnchainMainExtract ==
    /\ entry = "onchain_main"
    /\ pc = "connect_returned"
    /\ num_blocks' = MainNumBlocks
    /\ pc' = "extract_enter"
    /\ UNCHANGED <<entry, exc, calls, logged, file, marketVars, head, failing,
                   latest_block_number, start_block, block_num, attempted, data>>

OnchainMainSave ==
    /\ entry = "onchain_main"
    /\ pc = "extract_returned"
    /\ pc' = "onchain_save_enter"
    /\ UNCHANGED <<entry, exc, calls, logged, file, marketVars, onchainVars>>

OnchainMainSuccess ==
    /\ entry = "onchain_main"
    /\ pc = "save_returned"
    /\ logged' = logged \cup {"Pipeline executed successfully"}
    /\ pc' = "main_returned"
    /\ UNCHANGED <<entry, exc, calls, file, marketVars, onchainVars>>

OnchainMainExcept ==
    /\ entry = "onchain_main"
    /\ pc \in {"connect_raised", "extract_raised", "save_raised"}
    /\ IF MainCatches(exc)
         THEN /\ logged' = logged \cup {"Pipeline execution failed"}
              /\ pc' = "main_returned"
         ELSE /\ pc' = "main_raised"
              /\ UNCHANGED logged
    /\ UNCHANGED <<entry, exc, calls, file, marketVars, onchainVars>>

---------------------------------------------------------------------------
(* The runs *)

MarketIdle ==
    /\ endpoint = <<>>
    /\ max_retries = 0
    /\ attempt = 0
    /\ requests = 0
    /\ sleeps = 0
    /\ raw_data = None
    /\ df = None

OnchainIdle ==
    /\ head = 0
    /\ failing = {}
    /\ num_blocks = 0
    /\ latest_block_number = 0
    /\ start_block = 0
    /\ block_num = 0
    /\ attempted = <<>>
    /\ data = <<>>

NoHistory ==
    /\ exc = "none"
    /\ calls = <<>>
    /\ logged = {}

(* python fetch_market_data.py *)
InitMarketMain ==
    /\ entry = "market_main"
    /\ pc = "main_start"
    /\ NoHistory
    /\ file \in {Absent, Previous}
    /\ endpoint \in Endpoints
    /\ max_retries = 0 /\ attempt = 0 /\ requests = 0 /\ sleeps = 0
    /\ raw_data = None /\ df = None
    /\ OnchainIdle

(* fetch_market_data(max_retries=m) *)
InitFetchCall ==
    /\ entry = "fetch_market_data"
    /\ pc = "fetch_enter"
    /\ NoHistory
    /\ file = Absent
    /\ endpoint \in Endpoints
    /\ max_retries \in -1..MaxRetries
    /\ attempt = 0 /\ requests = 0 /\ sleeps = 0
    /\ raw_data = None /\ df = None
    /\ OnchainIdle

(* process_market_data({"prices": p, "total_volumes": v}) *)
InitProcessCall ==
    /\ entry = "process_market_data"
    /\ pc = "process_enter"
    /\ NoHistory
    /\ file = Absent
    /\ endpoint = <<>>
    /\ max_retries = 0 /\ attempt = 0 /\ requests = 0 /\ sleeps = 0
    /\ raw_data \in {Dict(p, v) : p \in PriceSeries, v \in VolumeSeries}
    /\ df = None
    /\ OnchainIdle

(* python fetch_onchain_data.py *)
InitOnchainMain ==
    /\ entry = "onchain_main"
    /\ pc = "main_start"
    /\ NoHistory
    /\ file \in {Absent, Previous}
    /\ MarketIdle
    /\ head \in 0..MaxHead
    /\ failing \in SUBSET (0..MaxHead)
    /\ num_blocks = 0
    /\ latest_block_number = 0 /\ start_block = 0 /\ block_num = 0
    /\ attempted = <<>> /\ data = <<>>

(* extract_block_data(w3, num_blocks=n) *)
InitExtractCall ==
    /\ entry = "extract_block_data"
    /\ pc = "extract_enter"
    /\ NoHistory
    /\ file = Absent
    /\ MarketIdle
    /\ head \in 0..MaxHead
    /\ failing \in SUBSET (0..MaxHead)
    /\ num_blocks \in 0..MaxBlocks
    /\ latest_block_number = 0 /\ start_block = 0 /\ block_num = 0
    /\ attempted = <<>> /\ data = <<>>

Init ==
    \/ InitMarketMain
    \/ InitFetchCall
    \/ InitProcessCall
    \/ InitOnchainMain
    \/ InitExtractCall

Next ==
    \/ FetchEnter
    \/ FetchOk
    \/ FetchRateLimited
    \/ FetchHttpError
    \/ FetchRequestError
    \/ FetchLoopEnd
    \/ ProcessEnter
    \/ MarketSaveOk
    \/ MarketSaveFails
    \/ MarketMainStart
    \/ MarketMainProcess
    \/ MarketMainSave
    \/ MarketMainSuccess
    \/ MarketMainExcept
    \/ ConnectNoUri
    \/ ConnectNotConnected
    \/ ConnectOk
    \/ ExtractEnter
    \/ ExtractHeadFails
    \/ ExtractBlockOk
    \/ ExtractBlockFails
    \/ ExtractReturn
    \/ OnchainSaveEmpty
    \/ OnchainSaveOk
    \/ OnchainSaveFails
    \/ OnchainMainStart
    \/ OnchainMainExtract
    \/ OnchainMainSave
    \/ OnchainMainSuccess
    \/ OnchainMainExcept

Spec == Init /\ [][Next]_vars

---------------------------------------------------------------------------
(* Properties of fetch_market_data *)

(* The endpoint answers 429 to each of the first k requests. *)
First429(k) == \A i \in 1..k : endpoint[i].status = 429

(* C1: with max_retries = M >= 1, an endpoint that answers 429 to the first *)
(* k < M requests and 200 to request k+1 makes the call return that         *)
(* response's payload after exactly k+1 requests; an endpoint that answers  *)
(* 429 to all M requests makes the call raise after exactly M requests, and *)
(* request M+1 is never issued.                                             *)
C1_RetryOnRateLimit ==
    (max_retries >= 1 /\ pc \in {"fetch_loop", "fetch_returned", "fetch_raised"}) =>
        /\ \A k \in 0..(max_retries - 1) :
              (First429(k) /\ endpoint[k + 1].status = 200) =>
                  /\ requests <= k + 1
                  /\ pc # "fetch_raised"
                  /\ pc = "fetch_returned" =>
                        /\ requests = k + 1
                        /\ raw_data = endpoint[k + 1].body
                  /\ pc = "fetch_loop" => requests < k + 1
        /\ First429(max_retries) =>
              /\ requests <= max_retries
              /\ pc # "fetch_returned"
              /\ pc = "fetch_raised" => requests = max_retries /\ exc = "HTTPError"
              /\ pc = "fetch_loop" => requests < max_retries

(* 429, 429, 200 with max_retries = 3: returned on the third request *)
C1_Witness ==
    /\ pc = "fetch_returned"
    /\ max_retries = 3
    /\ requests = 3
    /\ endpoint[1].status = 429 /\ endpoint[2].status = 429
    /\ raw_data = endpoint[3].body
    /\ raw_data # None

(* A request that ended in an HTTP error other than 429 *)
FatalHttp(n) == endpoint[n].status \notin {0, 200, 429}

FetchAttempt == FetchOk \/ FetchRateLimited \/ FetchHttpError \/ FetchRequestError

(* C2: a request that ends in an HTTP error other than 429 ends the call at *)
(* once with that HTTPError, on whichever attempt: no delay follows it and  *)
(* it is the last request; a request that fails without a response on an    *)
(* attempt before the last is followed by a delay and by another request.   *)
C2_FatalAndRetryable ==
    \A n \in 1..requests :
        /\ FatalHttp(n) =>
              /\ requests = n
              /\ sleeps = n - 1
              /\ exc = "HTTPError"
              /\ raw_data = None
              /\ pc \in {"fetch_raised", "main_returned"}
        /\ (endpoint[n] = NoResponse /\ n < max_retries) =>
              /\ sleeps >= n
              /\ requests = n => (pc = "fetch_loop" /\ sleeps = n /\ ENABLED FetchAttempt)

(* a 404 on the second of three attempts, after a timeout on the first *)
C2_Witness ==
    /\ pc = "fetch_raised"
    /\ max_retries = 3
    /\ endpoint[1] = NoResponse
    /\ endpoint[2].status = 404
    /\ requests = 2
    /\ sleeps = 1

(* C9 as stated: for every integer max_retries the call issues at most      *)
(* max(max_retries, 0) requests, never stops inside the loop, and ends by   *)
(* returning a response's payload or by raising: it never returns without a *)
(* payload.                                                                 *)
C9_ReturnsPayloadOrRaises ==
    /\ requests <= Max(max_retries, 0)
    /\ pc = "fetch_loop" => ENABLED Next
    /\ pc = "fetch_returned" =>
          /\ raw_data # None
          /\ requests >= 1
          /\ raw_data = endpoint[requests].body

---------------------------------------------------------------------------
(* Properties of process_market_data *)

Processed == df # None

InputPrices  == raw_data.prices
InputVolumes == raw_data.total_volumes

(* The timestamps present in both series *)
JoinedTimestamps ==
    {InputPrices[i][1] : i \in 1..Len(InputPrices)}
        \cap {InputVolumes[j][1] : j \in 1..Len(InputVolumes)}

(* The last entry of the price series that is joined and falls on date d,   *)
(* and the last entry of the volume series with that entry's timestamp.     *)
LastPriceIndex(d) ==
    CHOOSE i \in 1..Len(InputPrices) :
        /\ InputPrices[i][1] \in JoinedTimestamps
        /\ ToDate(InputPrices[i][1]) = d
        /\ \A k \in (i + 1)..Len(InputPrices) :
              ~(InputPrices[k][1] \in JoinedTimestamps /\ ToDate(InputPrices[k][1]) = d)

LastVolumeIndex(t) ==
    CHOOSE j \in 1..Len(InputVolumes) :
        /\ InputVolumes[j][1] = t
        /\ \A k \in (j + 1)..Len(InputVolumes) : InputVolumes[k][1] # t

(* C5: the output has exactly one record for each date that a timestamp     *)
(* present in both series maps to and none for any other date; the record   *)
(* of a date carries the price and the volume of the later-indexed joined   *)
(* entry of that date.                                                      *)
C5_OneRecordPerJoinedDate ==
    Processed =>
        LET rows == df.rows IN
        /\ {rows[i].date : i \in 1..Len(rows)} = {ToDate(t) : t \in JoinedTimestamps}
        /\ \A i, j \in 1..Len(rows) : rows[i].date = rows[j].date => i = j
        /\ \A i \in 1..Len(rows) :
              LET p == LastPriceIndex(rows[i].date) IN
              /\ rows[i].price = InputPrices[p][2]
              /\ rows[i].volume = InputVolumes[LastVolumeIndex(InputPrices[p][1])][2]

(* two joined timestamps of one date with different prices, and a timestamp *)
(* that only the price series has                                           *)
C5_Witness ==
    /\ pc = "process_returned"
    /\ entry = "process_market_data"
    /\ Len(InputPrices) = 2
    /\ InputPrices[1][1] = 0 /\ InputPrices[2][1] = HalfDay
    /\ InputPrices[1][2] # InputPrices[2][2]
    /\ {0, HalfDay} \subseteq JoinedTimestamps
    /\ Len(df.rows) = 1
    /\ df.rows[1].price = InputPrices[2][2]

StrictlyIncreasingDates(rows) ==
    \A i \in 1..(Len(rows) - 1) : rows[i].date < rows[i + 1].date

(* C7 as stated: for every payload with both series, whatever the order of  *)
(* its timestamps, the dates of the output are strictly increasing.         *)
C7_SortedForEveryPayload == Processed => StrictlyIncreasingDates(df.rows)

AscendingPrices ==
    \A i \in 1..(Len(InputPrices) - 1) : InputPrices[i][1] <= InputPrices[i + 1][1]

(* C7 amended: for every payload with both series whose price series is in  *)
(* ascending timestamp order, the dates of the output are strictly          *)
(* increasing.                                                              *)
C7_SortedForAscendingPrices ==
    (Processed /\ AscendingPrices) => StrictlyIncreasingDates(df.rows)

(* an ascending price series with a same-day pair, joined to a volume       *)
(* series in descending order: two records                                  *)
C7_Witness ==
    /\ pc = "process_returned"
    /\ AscendingPrices
    /\ Len(InputPrices) = 2 /\ Len(InputVolumes) = 2
    /\ InputVolumes[1][1] > InputVolumes[2][1]
    /\ Len(df.rows) = 2

---------------------------------------------------------------------------
(* Properties of extract_block_data *)

(* hi, hi-1, ..., lo *)
RECURSIVE Descending(_, _)
Descending(hi, lo) == IF hi < lo THEN <<>> ELSE <<hi>> \o Descending(hi - 1, lo)

(* The window of a call: H, H-1, ..., max(0, H-N+1) *)
Window == Descending(head, Max(0, head - num_blocks + 1))

IsPrefix(s, t) == Len(s) <= Len(t) /\ \A i \in 1..Len(s) : s[i] = t[i]

(* C3: with head H >= 0 and window size N >= 1 the call attempts exactly    *)
(* the blocks H, H-1, ..., max(0, H-N+1), each once and in descending       *)
(* order, never a negative block number, and returns at most min(N, H+1)    *)
(* records.                                                                 *)
C3_WindowClampedAtZero ==
    (num_blocks >= 1 /\ pc \in {"extract_loop", "extract_returned"}) =>
        /\ IsPrefix(attempted, Window)
        /\ \A i \in 1..Len(attempted) : attempted[i] >= 0
        /\ Len(data) <= Min(num_blocks, head + 1)
        /\ pc = "extract_returned" => attempted = Window

(* more blocks requested than the chain has: blocks H..0 were attempted *)
C3_Witness ==
    /\ pc = "extract_returned"
    /\ head >= 1
    /\ num_blocks > head + 1
    /\ Len(attempted) = head + 1
    /\ attempted[Len(attempted)] = 0

(* The records of the blocks of `blocks` that are not in F, in their order *)
RECURSIVE RecordsExcept(_, _)
RecordsExcept(blocks, F) ==
    IF blocks = <<>> THEN <<>>
    ELSE (IF Head(blocks) \in F THEN <<>> ELSE << [block_number |-> Head(blocks)] >>)
         \o RecordsExcept(Tail(blocks), F)

(* C4: whatever set of blocks of the window fails, the call goes on to      *)
(* every later block of the window and does not raise; the list it returns  *)
(* holds exactly one record for each block of the window that did not fail  *)
(* and none for one that did, in descending block-number order.             *)
C4_FailedBlocksAreSkipped ==
    /\ pc = "extract_loop" =>
          /\ IsPrefix(attempted, Window)
          /\ data = RecordsExcept(attempted, failing)
          /\ Len(attempted) < Len(Window) => block_num >= start_block
    /\ pc = "extract_returned" =>
          /\ attempted = Window
          /\ data = RecordsExcept(Window, failing)
    /\ pc = "extract_raised" => attempted = <<>>

(* a block in the middle of the window failed, the blocks around it did not *)
C4_Witness ==
    /\ pc = "extract_returned"
    /\ Len(attempted) = 3
    /\ attempted[2] \in failing
    /\ Len(data) = 2
    /\ data[2].block_number = attempted[3]

---------------------------------------------------------------------------
(* Properties of the writers and of the pipelines *)

IsMain == entry \in {"market_main", "onchain_main"}

Steps ==
    IF entry = "market_main"
      THEN <<"fetch_market_data", "process_market_data", "save_to_csv">>
      ELSE <<"connect_to_node", "extract_block_data", "save_to_csv">>

SaveCalled == Len(calls) = 3 /\ calls[3] = "save_to_csv"

(* The record sequence save_to_csv was given *)
SavedRecords == IF entry = "market_main" THEN df.rows ELSE data

(* C6 as stated: in both pipelines, save_to_csv given an empty record       *)
(* sequence writes nothing (the output file is neither created nor          *)
(* overwritten), logs a warning and does not raise.                         *)
C6_EmptyInputWritesNothing ==
    (IsMain /\ SaveCalled /\ SavedRecords = <<>>) =>
        /\ Untouched(file)
        /\ "No data to save" \in logged
        /\ pc # "save_raised"

RaisedPcs ==
    {"fetch_raised", "process_raised", "connect_raised", "extract_raised", "save_raised"}

(* C8: main runs its three steps in their fixed order; a step that fails    *)
(* is caught and logged, no later step of the run is executed (no output    *)
(* file is written or overwritten when the step before the writer failed),  *)
(* and main returns normally; a failed connection is not retried.           *)
C8_MainStopsAtFirstFailure ==
    IsMain =>
        /\ IsPrefix(calls, Steps)
        /\ pc # "main_raised"
        /\ pc # "main_returned" => ENABLED Next
        /\ exc # "none" =>
              /\ pc \in RaisedPcs \cup {"main_returned"}
              /\ "Pipeline executed successfully" \notin logged
              /\ ~SaveCalled => Untouched(file)
        /\ pc = "main_returned" =>
              IF exc = "none"
                THEN /\ calls = Steps
                     /\ "Pipeline executed successfully" \in logged
                     /\ "Pipeline execution failed" \notin logged
                ELSE /\ "Pipeline execution failed" \in logged
        /\ Len(SelectSeq(calls, LAMBDA c : c = "connect_to_node")) <= 1

(* the liveness check of the connector failed: main has returned, the       *)
(* failure is logged, nothing else was called, and the previous run's file  *)
(* is as it was                                                             *)
C8_Witness ==
    /\ entry = "onchain_main"
    /\ pc = "main_returned"
    /\ exc = "ConnectionError"
    /\ calls = <<"connect_to_node">>
    /\ "Pipeline execution failed" \in logged
    /\ file = Previous

(* C10 as stated: the on-chain main reports success only in runs in which   *)
(* the output CSV file was written.                                         *)
C10_SuccessImpliesFileWritten ==
    (entry = "onchain_main" /\ "Pipeline executed successfully" \in logged) =>
        file.state = "written"

===========================================================================
